---- MODULE Spec2Model ----
(***************************************************************************)
(* A model of temper (bigpipe/temper, index.js): the per-instance caches   *)
(* `installed`, `required`, `compiled`, `file`, the TickTock eviction      *)
(* timers, and the synchronous operations require, read, discover,         *)
(* compile, fetch/prefetch and destroy.                                    *)
(*                                                                         *)
(* The environment (outside the program) is the set of node modules that   *)
(* `require(name)` can load (`loadable`) and the file system (`fs`).       *)
(* A pending timer holds the delay it was scheduled with, in minutes. How  *)
(* much time passes between two calls is left open: any pending timer may  *)
(* be the next one to fire its cleanup callback.  SpecTimed adds a clock:  *)
(* there a pending timer counts the minutes down and fires when due.       *)
(*                                                                         *)
(* The operations are taken from index.js.  The later revision of the     *)
(* file (with react-jsx and transform) has the same require, discover and  *)
(* fetch; its destroy is delegated to the external module demolish.        *)
(*                                                                         *)
(* A path is the sequence of lexemes of its base name: "a.mustache" is     *)
(* <<"a", ".mustache">>; a lexeme that starts with a dot is a DotLexeme.   *)
(***************************************************************************)
EXTENDS Integers, Sequences, FiniteSets, TLC

VARIABLES
  installed,   \* this.installed: extension -> engine name (Undefined: no key)
  required,    \* this.required: the set of engine names that are keys
  compiled,    \* this.compiled: path -> artifact (NoArtifact: no key)
  file,        \* this.file: path -> content (Absent: no key)
  timers,      \* this.timers: [require: engine -> minutes, read: path -> minutes]
  live,        \* this.timers is the TickTock object (FALSE: it is null)
  cache,       \* this.cache
  nextId,      \* identity of the next object literal compile() returns
  ret,         \* what the last call returned or threw
  loadable,    \* environment: modules node's require() can load
  fs,          \* environment: path -> content (Missing: readFileSync throws)
  envChanges,  \* number of environment changes so far
  source,      \* the template the `server` closure of an html artifact binds
  data,        \* the data record of the last server(data) call
  rendered,    \* what the last server(data) call returned
  evaluated,   \* what the evaluated `client` of the artifact returned for data
  options,     \* the options the constructor was called with
  env,         \* environment: process.env.NODE_ENV at construction
  filename,    \* the path normalizeName was called with, as characters
  identifier,  \* what normalizeName returned
  named        \* the client text after the anonymous function was renamed

\* the closure of an html artifact and its last call
closure == <<source, data, rendered, evaluated>>

\* the constructor's inputs
construction == <<options, env>>

\* the last normalizeName call
naming == <<filename, identifier, named>>

vars == <<installed, required, compiled, file, timers, live, cache, nextId, ret,
          loadable, fs, envChanges, source, data, rendered, evaluated,
          options, env, filename, identifier, named>>

----------------------------------------------------------------------------
(* Bounds of the model *)

MaxArtifacts == 2
MaxEnvChanges == 2
\* the longest template, and the most properties of a data record
MaxSourceLen == 4
MaxKeys == 2
\* the longest path normalizeName is called with
MaxPathLen == 4

----------------------------------------------------------------------------
(* Program constants *)

\* '5 minutes', the TTL of an entry of this.required
EngineTTL == 5
\* '1 minute', the TTL of an entry of this.file
FileTTL == 1

Undefined == "undefined"
Absent == "<absent>"
Missing == "<ENOENT>"
NoTimer == -1

\* Temper.prototype.supported; an extension that is no key maps to <<>>
supported(ext) ==
  CASE ext = ".ejs" -> <<"ejs">>
    [] ext = ".jade" -> <<"jade">>
    [] ext = ".mustache" -> <<"hogan.js", "mustache", "handlebars">>
    [] ext = ".hbs" -> <<"handlebars">>
    [] ext = ".handlebars" -> <<"handlebars">>
    [] ext = ".html" -> <<"html">>
    [] OTHER -> <<>>

DotLexemes == {".ejs", ".jade", ".mustache", ".hbs", ".handlebars", ".html",
               ".trololol", ".js", ".runtime"}
Exts == DotLexemes \cup {""}

\* the engine names the model's calls can name
Engines == {"hogan.js", "mustache", "handlebars", "html", "ejs", "jade",
            "cowdoodlesack"}

\* the support files compile() reads for hogan.js and handlebars
HoganLib == <<"template", ".js">>
HandlebarsLib == <<"handlebars", ".runtime", ".js">>
JadeLib == <<"runtime", ".js">>

----------------------------------------------------------------------------
(* Inputs the calls are drawn from *)

A == <<"a", ".mustache">>
B == <<"b", ".mustache">>
T == <<"t", ".trololol">>
Paths == {A, B, T}
LibPaths == {HoganLib, HandlebarsLib, JadeLib}
Files == Paths \cup LibPaths
Contents == {"v1", "v2"}
\* the modules that are installed or removed while the program runs
Installable == {"hogan.js", "mustache", "handlebars"}

\* Spec: every operation, on one template
InitLoadable == { {}, {"handlebars"}, {"hogan.js", "handlebars"} }
RequireInputs == {"hogan.js", "cowdoodlesack"}
ReadPaths == {A}
DiscoverPaths == {A, T}
CompileTemplates == {"v1"}
CompileEngines == {"handlebars"}
FetchPaths == {A}
FetchEngines == {Undefined, "hogan.js"}
InstallInputs == {"hogan.js"}
WritablePaths == {A}

\* SpecFetch: fetch with and without an engine, on two templates
OverridePaths == {A, T}
OverrideEngines == {Undefined, "hogan.js", "handlebars"}
FetchCompileEngines == {"hogan.js", "handlebars", "html"}

\* SpecEvict: discover and fetch between evictions and removals of modules
EvictPaths == {A, B}

\* SpecCompile: compile with every engine of the `supported` table
AdapterLoadable == { {"mustache"}, {"hogan.js", "handlebars", "ejs", "jade"} }
AdapterPaths == {A}
AdapterEngines == {"hogan.js", "mustache", "handlebars", "ejs", "jade", "html"}

\* SpecTimed: one engine and one template, with a clock
TimedEngines == {"hogan.js"}

\* SpecRegistry: require and discover, on every subset of the candidates
RegistryRequireInputs == {"hogan.js", "mustache", "handlebars", "html", "cowdoodlesack"}
RegistryDiscoverPaths == {A, B, T}

----------------------------------------------------------------------------
(* Values *)

\* Temper.prototype.hash: the md5 digest of the text of code, kept as a term
hash(code) == <<"md5", code>>

\* what an engine's switch case assigns to `client` (a string) and to
\* `server` (a function that closes over the template)
Client(engine, template) == <<"client", engine, template>>
Server(engine, template) == <<"server", engine, template>>

\* the engines whose server is the `function render(data)` written in compile
Renderers == {"hogan.js", "html"}

\* variant of toString: the text of a function shows what it closes over
toStringWithClosure(fn) == fn

\* code.toString() of a server: the text of `function render(data) {...}`
\* holds no value of the closure; what the functions made by the other
\* engines' compilers print is left to depend on the template
toString(fn) ==
  IF Len(fn) = 3 /\ fn[2] \in Renderers THEN <<"render", fn[2]>> ELSE fn

NoArtifact == [id |-> 0, engine |-> Undefined, template |-> Absent, library |-> Absent,
               client |-> <<>>, server |-> <<>>,
               hash |-> [library |-> <<>>, client |-> <<>>, server |-> <<>>]]

\* no server(data) call was made yet
NotRendered == <<"<none>">>
NoClosure ==
  source = <<>> /\ data = <<>> /\ rendered = NotRendered /\ evaluated = NotRendered

\* normalizeName was not called yet
NotNamed == <<"<none>">>
NoNaming == filename = <<>> /\ identifier = NotNamed /\ named = NotNamed

\* the constructor's options: `given` is `'cache' in options`
Options == [given : BOOLEAN, cache : BOOLEAN]
ExplicitOptions == {o \in Options : o.given}
NoOptions == [given |-> FALSE, cache |-> FALSE]

\* process.env.NODE_ENV
Envs == {"production", "development", Undefined}

\* variant of CacheOption: the `cache` option is not looked at
CacheOptionIgnored(o, e) == e # "production"

\* `'cache' in options ? options.cache : process.env.NODE_ENV !== 'production'`
CacheOption(o, e) == IF o.given THEN o.cache ELSE e # "production"

\* function Temper(options), as far as this.cache goes
Constructed(o, e) == options = o /\ env = e /\ cache = CacheOption(o, e)

NoRet == [op |-> "new", arg |-> <<>>, engine |-> Undefined, status |-> "ok",
          mentions |-> {}, name |-> Undefined, content |-> Absent,
          art |-> NoArtifact, flag |-> FALSE]

\* the instance's own state, as the calls thread it through
Self == [installed |-> installed, required |-> required, compiled |-> compiled,
         file |-> file, timers |-> timers, live |-> live, nextId |-> nextId]

\* path.extname on the lexemes of a base name
extname(p) ==
  IF Len(p) >= 2 /\ p[Len(p)] \in DotLexemes THEN p[Len(p)] ELSE ""

----------------------------------------------------------------------------
(* Results of a call: the instance state it leaves, and what it returned   *)
(* (status "ok") or threw (any other status; `mentions` are the names the  *)
(* error message contains).                                                *)

Result(s, status, mentions, name, content, art) ==
  [s |-> s, status |-> status, mentions |-> mentions, name |-> name,
   content |-> content, art |-> art]

Throw(s, status, mentions) == Result(s, status, mentions, Undefined, Absent, NoArtifact)
ReturnName(s, name) == Result(s, "ok", {}, name, Absent, NoArtifact)
ReturnContent(s, content) == Result(s, "ok", {}, Undefined, content, NoArtifact)
ReturnArtifact(s, art) == Result(s, "ok", {}, Undefined, Absent, art)

\* variant of setTimeout: the callback is dropped and nothing is scheduled
setTimeoutLost(t, kind, key, ttl) == t

\* this.timers.setTimeout(name, fn, ttl): a name that is already pending keeps
\* its timer (tick-tock adds the callback to it), a new name is scheduled
setTimeout(t, kind, key, ttl) ==
  IF t[kind][key] # NoTimer THEN t ELSE [t EXCEPT ![kind][key] = ttl]

\* variant of CanLoad: 'html' goes to node's require() like any other name
CanLoadModule(engine) == engine \in loadable

\* node's require(engine), the try block of Temper.prototype.require
CanLoad(engine) == engine = "html" \/ engine \in loadable

\* variant of RequireFailed: the failure is remembered as a negative entry
RequireFailedCached(s, engine) ==
  Throw([s EXCEPT !.required = @ \cup {engine}], "module isn't installed", {engine})

\* the catch block of Temper.prototype.require
RequireFailed(s, engine) ==
  Throw(s, "module isn't installed", {engine})

\* variant of RequireHit: a cached engine's eviction is scheduled anew
RequireHitRenews(s, engine) ==
  ReturnName([s EXCEPT !.timers.require[engine] = EngineTTL], engine)

\* `if (engine in this.required) return this.required[engine];`
RequireHit(s, engine) == ReturnName(s, engine)

\* Temper.prototype.require
Require(s, engine) ==
  IF engine \in s.required THEN RequireHit(s, engine)
  ELSE IF ~CanLoad(engine) THEN RequireFailed(s, engine)
  ELSE ReturnName([s EXCEPT !.required = @ \cup {engine},
                            !.timers = setTimeout(@, "require", engine, EngineTTL)],
                  engine)

\* variant of ReadHit: a cached file's eviction is scheduled anew
ReadHitRenews(s, f) ==
  ReturnContent([s EXCEPT !.timers.read[f] = FileTTL], s.file[f])

\* variant of ReadHit: a cached file is read from the file system again
ReadHitRereads(s, f) ==
  IF fs[f] = Missing THEN Throw(s, "ENOENT", {}) ELSE ReturnContent(s, fs[f])

\* `if (file in this.file) return this.file[file];`
ReadHit(s, f) == ReturnContent(s, s.file[f])

\* variant of ReadFailed: the eviction of the path is scheduled all the same
ReadFailedScheduled(s, f) ==
  Throw([s EXCEPT !.timers = setTimeout(@, "read", f, FileTTL)], "ENOENT", {})

\* fs.readFileSync(file, 'utf-8') throws, before anything is assigned
ReadFailed(s, f) == Throw(s, "ENOENT", {})

\* Temper.prototype.read
Read(s, f) ==
  IF s.file[f] # Absent THEN ReadHit(s, f)
  ELSE IF fs[f] = Missing THEN ReadFailed(s, f)
  ELSE ReturnContent([s EXCEPT !.file[f] = fs[f],
                               !.timers = setTimeout(@, "read", f, FileTTL)],
                     fs[f])

\* variant of HasBinding: a binding counts only while its engine is cached
HasBindingLoaded(s, ext) == s.installed[ext] # Undefined /\ s.installed[ext] \in s.required

\* `extname in this.installed`
HasBinding(s, ext) == s.installed[ext] # Undefined

\* variant of UnknownExtension: the pass-through engine is bound to the extension
UnknownExtensionBound(s, ext) ==
  Throw([s EXCEPT !.installed[ext] = "html"], "Unknown file extension", {ext})

\* the throw for an extension without a candidate list
UnknownExtension(s, ext) == Throw(s, "Unknown file extension", {ext})

\* variant of NoEngine: the message names the last candidate
NoEngineLast(s, ext, list) ==
  Throw(s, "No compatible template engine installed", {list[Len(list)]})

\* the throw after every candidate failed to load
NoEngine(s, ext, list) ==
  Throw(s, "No compatible template engine installed", {list[1]})

\* what the filter callback does to the instance for the candidate `engine`
\* whose require succeeded, leaving the state `s`
FilterAccept(s, ext, engine) ==
  [s EXCEPT !.required = @ \cup {engine}, !.installed[ext] = engine]

\* list.filter(...): the candidates i..Len(list) in order; `acc` is
\* [s: the instance state so far, found: the accepted names so far]
RECURSIVE Filter(_, _, _, _)
Filter(acc, ext, list, i) ==
  IF i > Len(list) THEN acc
  ELSE LET r == Require(acc.s, list[i]) IN
       IF r.status # "ok" THEN Filter(acc, ext, list, i + 1)
       ELSE Filter([s |-> FilterAccept(r.s, ext, list[i]),
                    found |-> Append(acc.found, list[i])],
                   ext, list, i + 1)

\* Temper.prototype.discover
Discover(s, f) ==
  LET ext == extname(f)
      list == supported(ext)
  IN IF HasBinding(s, ext) THEN ReturnName(s, s.installed[ext])
     ELSE IF list = <<>> THEN UnknownExtension(s, ext)
     ELSE LET done == Filter([s |-> s, found |-> <<>>], ext, list, 1) IN
          IF done.found # <<>> THEN ReturnName(done.s, done.found[1])
          ELSE NoEngine(done.s, ext, list)

\* variant of LibraryPath: no engine has a support file
LibraryPathNone(engine) == <<>>

\* the support file of an engine's switch case (<<>>: `library` stays undefined)
LibraryPath(engine) ==
  CASE engine = "hogan.js" -> HoganLib
    [] engine = "handlebars" -> HandlebarsLib
    [] engine = "jade" -> JadeLib
    [] OTHER -> <<>>

\* the engines whose switch case assigns `client` and `server`
HasCase(engine) == engine \in {"hogan.js", "handlebars", "ejs", "jade", "html"}

\* variant of Artifact: the digests of client and server change places
ArtifactSwapped(id, engine, template, library) ==
  [id |-> id, engine |-> engine, template |-> template, library |-> library,
   client |-> Client(engine, template), server |-> Server(engine, template),
   hash |-> [library |-> hash(library),
             client |-> hash(toString(Server(engine, template))),
             server |-> hash(Client(engine, template))]]

\* variant of Artifact: every call returns the object the first call made
ArtifactMemo(id, engine, template, library) ==
  [id |-> 1, engine |-> engine, template |-> template, library |-> library,
   client |-> Client(engine, template), server |-> Server(engine, template),
   hash |-> [library |-> hash(library),
             client |-> hash(Client(engine, template)),
             server |-> hash(toString(Server(engine, template)))]]

\* the object literal compile() returns; `id` is the object's identity
Artifact(id, engine, template, library) ==
  [id |-> id, engine |-> engine, template |-> template, library |-> library,
   client |-> Client(engine, template), server |-> Server(engine, template),
   hash |-> [library |-> hash(library),
             client |-> hash(Client(engine, template)),
             server |-> hash(toString(Server(engine, template)))]]

\* Temper.prototype.compile; the compilers themselves are taken to succeed.
\* Without a switch case `client` is undefined and this.hash(client) throws.
Compile(s, template, engine) ==
  LET r == Require(s, engine) IN
  IF r.status # "ok" THEN r
  ELSE LET lib == LibraryPath(engine)
           l == IF lib = <<>> THEN ReturnContent(r.s, "") ELSE Read(r.s, lib)
       IN IF l.status # "ok" THEN l
          ELSE IF ~HasCase(engine) THEN Throw(l.s, "TypeError", {})
          ELSE ReturnArtifact([l.s EXCEPT !.nextId = @ + 1],
                              Artifact(l.s.nextId, engine, template, l.content))

\* variant of HasCompiled: an artifact counts only while its file is cached
HasCompiledFresh(s, f) == s.compiled[f] # NoArtifact /\ s.file[f] # Absent

\* `file in this.compiled` (prefetch), `this.compiled[file] ||` (fetch)
HasCompiled(s, f) == s.compiled[f] # NoArtifact

\* variant of Lookup: an entry counts only for the engine the caller names
LookupByEngine(s, f, engine) ==
  HasCompiled(s, f) /\ (engine = Undefined \/ s.compiled[f].engine = engine)

\* the lookup of fetch and prefetch: the key is the path, `engine` is no
\* part of it
Lookup(s, f, engine) == HasCompiled(s, f)

\* variant of Resolve: the engine is discovered whatever the caller names
ResolveDiscovers(s, f, engine) == Discover(s, f)

\* `engine = engine || this.discover(file);`
Resolve(s, f, engine) ==
  IF engine # Undefined THEN ReturnName(s, engine) ELSE Discover(s, f)

\* variant of Store: the artifact is stored whatever this.cache is
StoreAlways(s, f, art) == [s EXCEPT !.compiled[f] = art]

\* `if (!this.cache) return compiled; return this.compiled[file] = compiled;`
Store(s, f, art) == IF cache THEN [s EXCEPT !.compiled[f] = art] ELSE s

\* Temper.prototype.prefetch: read, then `engine || this.discover(file)`,
\* then compile, then the store when this.cache is set
Prefetch(s, f, engine) ==
  IF Lookup(s, f, engine) THEN ReturnArtifact(s, s.compiled[f])
  ELSE LET t == Read(s, f) IN
       IF t.status # "ok" THEN t
       ELSE LET d == Resolve(t.s, f, engine)
            IN IF d.status # "ok" THEN d
               ELSE LET c == Compile(d.s, t.content, d.name) IN
                    IF c.status # "ok" THEN c
                    ELSE ReturnArtifact(Store(c.s, f, c.art), c.art)

\* Temper.prototype.fetch
Fetch(s, f, engine) ==
  IF Lookup(s, f, engine) THEN ReturnArtifact(s, s.compiled[f])
  ELSE Prefetch(s, f, engine)

\* variant of RequireCleanup: the bindings to the engine are dropped with it
RequireCleanupUnbind(s, engine) ==
  [s EXCEPT !.required = @ \ {engine},
            !.installed = [e \in Exts |-> IF @[e] = engine THEN Undefined ELSE @[e]]]

\* the cleanup callback of require's timer
RequireCleanup(s, engine) == [s EXCEPT !.required = @ \ {engine}]

\* variant of ReadCleanup: the key stays, with an empty content
ReadCleanupEmpties(s, f) == [s EXCEPT !.file[f] = ""]

\* variant of ReadCleanup: the whole file cache is dropped
ReadCleanupAll(s, f) == [s EXCEPT !.file = [g \in Files |-> Absent]]

\* the cleanup callback of read's timer
ReadCleanup(s, f) == [s EXCEPT !.file[f] = Absent]

\* Temper.prototype.destroy: `if (this.timers) return false;` returns for the
\* TickTock object of a live instance, and nothing is torn down; with
\* this.timers null the next statement, this.timers.destroy(), throws
Destroy(s) ==
  IF s.live THEN [s |-> s, status |-> "ok", flag |-> FALSE]
  ELSE [s |-> s, status |-> "TypeError", flag |-> FALSE]

\* the instance's caches and timers as the constructor leaves them
NoBindings == [e \in Exts |-> Undefined]
NoArtifacts == [p \in Paths |-> NoArtifact]
NoFiles == [f \in Files |-> Absent]
NoTimers == [require |-> [e \in Engines |-> NoTimer], read |-> [f \in Files |-> NoTimer]]

----------------------------------------------------------------------------
(* The state machine *)

Init ==
  /\ installed = [e \in Exts |-> Undefined]
  /\ required = {}
  /\ compiled = [p \in Paths |-> NoArtifact]
  /\ file = [f \in Files |-> Absent]
  /\ timers = [require |-> [e \in Engines |-> NoTimer],
               read |-> [f \in Files |-> NoTimer]]
  /\ live = TRUE
  /\ Constructed(NoOptions, "development")
  /\ nextId = 1
  /\ ret = NoRet
  /\ loadable \in InitLoadable
  /\ fs \in {g \in [Files -> Contents \cup {Missing, "lib"}] :
               /\ \A f \in LibPaths : g[f] = "lib"
               /\ \A f \in Paths : g[f] = "v1"}
  /\ envChanges = 0
  /\ NoClosure
  /\ NoNaming

\* the instance's state after a call
Becomes(s) ==
  /\ installed' = s.installed
  /\ required' = s.required
  /\ compiled' = s.compiled
  /\ file' = s.file
  /\ timers' = s.timers
  /\ live' = s.live
  /\ nextId' = s.nextId

\* a call that ended with the result r
Returns(op, arg, engine, r) ==
  /\ r.s.nextId <= MaxArtifacts + 1
  /\ Becomes(r.s)
  /\ ret' = [op |-> op, arg |-> arg, engine |-> engine, status |-> r.status,
             mentions |-> r.mentions, name |-> r.name, content |-> r.content,
             art |-> r.art, flag |-> FALSE]
  /\ UNCHANGED <<cache, loadable, fs, envChanges, closure, construction, naming>>

\* something other than a call happened
Event(op) == ret' = [NoRet EXCEPT !.op = op]

require(engine) == Returns("require", <<>>, engine, Require(Self, engine))

read(f) == Returns("read", f, Undefined, Read(Self, f))

discover(f) == Returns("discover", f, Undefined, Discover(Self, f))

compile(template, engine) ==
  Returns("compile", <<>>, engine, Compile(Self, template, engine))

fetch(f, engine) == Returns("fetch", f, engine, Fetch(Self, f, engine))

destroy ==
  /\ Becomes(Destroy(Self).s)
  /\ ret' = [NoRet EXCEPT !.op = "destroy", !.status = Destroy(Self).status,
                          !.flag = Destroy(Self).flag]
  /\ UNCHANGED <<cache, loadable, fs, envChanges, closure, construction, naming>>

\* the host assigns temper.cache
setCache(b) ==
  /\ cache # b
  /\ cache' = b
  /\ Event("setCache")
  /\ UNCHANGED <<installed, required, compiled, file, timers, live, nextId,
                 loadable, fs, envChanges, closure, construction, naming>>

\* the timer 'require-<engine>' fires
requireTimer(engine) ==
  /\ timers.require[engine] # NoTimer
  /\ Becomes([RequireCleanup(Self, engine) EXCEPT !.timers.require[engine] = NoTimer])
  /\ Event("cleanup")
  /\ UNCHANGED <<cache, loadable, fs, envChanges, closure, construction, naming>>

\* the timer 'read-<file>' fires
readTimer(f) ==
  /\ timers.read[f] # NoTimer
  /\ Becomes([ReadCleanup(Self, f) EXCEPT !.timers.read[f] = NoTimer])
  /\ Event("cleanup")
  /\ UNCHANGED <<cache, loadable, fs, envChanges, closure, construction, naming>>

\* environment: npm install / npm uninstall of a module
install(m) ==
  /\ envChanges < MaxEnvChanges
  /\ m \notin loadable
  /\ loadable' = loadable \cup {m}
  /\ envChanges' = envChanges + 1
  /\ Event("env")
  /\ UNCHANGED <<installed, required, compiled, file, timers, live, cache, nextId, fs,
                 closure, construction, naming>>

uninstall(m) ==
  /\ envChanges < MaxEnvChanges
  /\ m \in loadable
  /\ loadable' = loadable \ {m}
  /\ envChanges' = envChanges + 1
  /\ Event("env")
  /\ UNCHANGED <<installed, required, compiled, file, timers, live, cache, nextId, fs,
                 closure, construction, naming>>

\* environment: a template file is written or removed
writeFile(f, c) ==
  /\ envChanges < MaxEnvChanges
  /\ fs[f] # c
  /\ fs' = [fs EXCEPT ![f] = c]
  /\ envChanges' = envChanges + 1
  /\ Event("env")
  /\ UNCHANGED <<installed, required, compiled, file, timers, live, cache, nextId, loadable,
                 closure, construction, naming>>

Next ==
  \/ \E e \in RequireInputs : require(e)
  \/ \E f \in ReadPaths : read(f)
  \/ \E f \in DiscoverPaths : discover(f)
  \/ \E c \in CompileTemplates, e \in CompileEngines : compile(c, e)
  \/ \E f \in FetchPaths, e \in FetchEngines : fetch(f, e)
  \/ destroy
  \/ \E b \in BOOLEAN : setCache(b)
  \/ \E e \in Engines : requireTimer(e)
  \/ \E f \in Files : readTimer(f)
  \/ \E m \in InstallInputs : install(m)
  \/ \E f \in WritablePaths, c \in Contents \cup {Missing} : writeFile(f, c)

Spec == Init /\ [][Next]_vars

InitRegistry ==
  /\ installed = [e \in Exts |-> Undefined]
  /\ required = {}
  /\ compiled = [p \in Paths |-> NoArtifact]
  /\ file = [f \in Files |-> Absent]
  /\ timers = [require |-> [e \in Engines |-> NoTimer],
               read |-> [f \in Files |-> NoTimer]]
  /\ live = TRUE
  /\ \E o \in ExplicitOptions : Constructed(o, "development")
  /\ nextId = 1
  /\ ret = NoRet
  /\ loadable \in SUBSET Installable
  /\ fs = [f \in Files |-> IF f \in LibPaths THEN "lib" ELSE "v1"]
  /\ envChanges = 0
  /\ NoClosure
  /\ NoNaming

NextRegistry ==
  \/ \E e \in RegistryRequireInputs : require(e)
  \/ \E f \in RegistryDiscoverPaths : discover(f)
  \/ destroy
  \/ \E e \in Engines : requireTimer(e)
  \/ \E m \in Installable : install(m)
  \/ \E m \in Installable : uninstall(m)

SpecRegistry == InitRegistry /\ [][NextRegistry]_vars

InitFetch ==
  /\ installed = NoBindings
  /\ required = {}
  /\ compiled = NoArtifacts
  /\ file = NoFiles
  /\ timers = NoTimers
  /\ live = TRUE
  /\ Constructed(NoOptions, "development")
  /\ nextId = 1
  /\ ret = NoRet
  /\ loadable \in InitLoadable
  /\ fs = [f \in Files |-> IF f \in LibPaths THEN "lib" ELSE "v1"]
  /\ envChanges = 0
  /\ NoClosure
  /\ NoNaming

NextFetch ==
  \/ \E f \in OverridePaths, e \in OverrideEngines : fetch(f, e)
  \/ \E c \in CompileTemplates, e \in FetchCompileEngines : compile(c, e)
  \/ \E b \in BOOLEAN : setCache(b)
  \/ \E e \in Engines : requireTimer(e)
  \/ \E f \in Files : readTimer(f)

SpecFetch == InitFetch /\ [][NextFetch]_vars

----------------------------------------------------------------------------
(* discover and fetch while timers fire and modules are removed.           *)

InitEvict ==
  /\ installed = NoBindings
  /\ required = {}
  /\ compiled = NoArtifacts
  /\ file = NoFiles
  /\ timers = NoTimers
  /\ live = TRUE
  /\ \E o \in ExplicitOptions : Constructed(o, "development")
  /\ nextId = 1
  /\ ret = NoRet
  /\ loadable \in SUBSET Installable
  /\ fs = [f \in Files |-> IF f \in LibPaths THEN "lib" ELSE "v1"]
  /\ envChanges = 0
  /\ NoClosure
  /\ NoNaming

NextEvict ==
  \/ \E f \in EvictPaths : discover(f)
  \/ \E f \in EvictPaths : fetch(f, Undefined)
  \/ \E e \in Engines : requireTimer(e)
  \/ \E f \in Files : readTimer(f)
  \/ \E m \in Installable : uninstall(m)

SpecEvict == InitEvict /\ [][NextEvict]_vars

----------------------------------------------------------------------------
(* compile with the engines discover can return, on two templates.         *)

InitCompile ==
  /\ installed = NoBindings
  /\ required = {}
  /\ compiled = NoArtifacts
  /\ file = NoFiles
  /\ timers = NoTimers
  /\ live = TRUE
  /\ Constructed(NoOptions, "development")
  /\ nextId = 1
  /\ ret = NoRet
  /\ loadable \in AdapterLoadable
  /\ fs = [f \in Files |-> IF f \in LibPaths THEN "lib" ELSE "v1"]
  /\ envChanges = 0
  /\ NoClosure
  /\ NoNaming

NextCompile ==
  \/ \E f \in AdapterPaths : discover(f)
  \/ \E c \in Contents, e \in AdapterEngines : compile(c, e)
  \/ \E e \in Engines : requireTimer(e)
  \/ \E f \in Files : readTimer(f)

SpecCompile == InitCompile /\ [][NextCompile]_vars

----------------------------------------------------------------------------
(* The same operations with a clock.  Here a pending timer holds the       *)
(* minutes that remain until it is due: a minute passes only while no      *)
(* pending timer is due, and only a due timer fires.  Calls can be made at *)
(* any moment, also between a timer becoming due and its callback.         *)

\* the minutes that remain after one more minute
Elapse(t) == IF t = NoTimer THEN NoTimer ELSE t - 1

\* a minute passes
tick ==
  /\ \A e \in Engines : timers.require[e] # 0
  /\ \A f \in Files : timers.read[f] # 0
  /\ timers # NoTimers
  /\ timers' = [require |-> [e \in Engines |-> Elapse(timers.require[e])],
                read |-> [f \in Files |-> Elapse(timers.read[f])]]
  /\ Event("tick")
  /\ UNCHANGED <<installed, required, compiled, file, live, cache, nextId,
                 loadable, fs, envChanges, closure, construction, naming>>

\* the timer 'require-<engine>' is due and fires
requireDue(engine) == timers.require[engine] = 0 /\ requireTimer(engine)

\* the timer 'read-<file>' is due and fires
readDue(f) == timers.read[f] = 0 /\ readTimer(f)

InitTimed ==
  /\ installed = NoBindings
  /\ required = {}
  /\ compiled = NoArtifacts
  /\ file = NoFiles
  /\ timers = NoTimers
  /\ live = TRUE
  /\ \E o \in ExplicitOptions : Constructed(o, "development")
  /\ nextId = 1
  /\ ret = NoRet
  /\ loadable = TimedEngines
  /\ fs = [f \in Files |-> IF f \in LibPaths THEN "lib" ELSE "v1"]
  /\ envChanges = 0
  /\ NoClosure
  /\ NoNaming

NextTimed ==
  \/ \E e \in TimedEngines : require(e)
  \/ \E f \in ReadPaths : read(f)
  \/ \E f \in FetchPaths : discover(f)
  \/ \E f \in FetchPaths : fetch(f, Undefined)
  \/ tick
  \/ \E e \in Engines : requireDue(e)
  \/ \E f \in Files : readDue(f)
  \/ \E m \in TimedEngines : install(m)
  \/ \E m \in TimedEngines : uninstall(m)
  \/ \E f \in WritablePaths, c \in Contents \cup {Missing} : writeFile(f, c)

SpecTimed == InitTimed /\ [][NextTimed]_vars

----------------------------------------------------------------------------
(* Temper.html, the substitution the `server` closure of an html artifact  *)
(* runs.  A string is the sequence of its characters; a data record is the *)
(* sequence of its own <<key, value>> properties in the order `for in`     *)
(* visits them.                                                            *)

\* the source of new RegExp('{'+ key +'}', 'g'): in it the character '.'
\* matches any character, every other character of the model matches itself
Pattern(key) == <<"{">> \o key \o <<"}">>

\* the pattern matches the string at position i
MatchAt(pat, str, i) ==
  /\ i + Len(pat) - 1 <= Len(str)
  /\ \A j \in 1..Len(pat) : pat[j] = "." \/ pat[j] = str[i + j - 1]

\* String.prototype.replace with a string as replacement: what is inserted
\* for the match of length n at position i of str, from position k of the
\* replacement v on.  $$ inserts a dollar sign, $& the match, $` the text
\* before the match and $' the text after it.
RECURSIVE Expansion(_, _, _, _, _)
Expansion(v, k, str, i, n) ==
  IF k > Len(v) THEN <<>>
  ELSE IF v[k] = "$" /\ k < Len(v) /\ v[k + 1] \in {"$", "&", "`", "'"}
       THEN (CASE v[k + 1] = "$" -> <<"$">>
               [] v[k + 1] = "&" -> SubSeq(str, i, i + n - 1)
               [] v[k + 1] = "`" -> SubSeq(str, 1, i - 1)
               [] v[k + 1] = "'" -> SubSeq(str, i + n, Len(str)))
            \o Expansion(v, k + 2, str, i, n)
       ELSE <<v[k]>> \o Expansion(v, k + 1, str, i, n)

\* template.replace(pattern with flag g, v): the matches from left to right,
\* from position i of str on; what is inserted is not searched again
RECURSIVE ReplaceAll(_, _, _, _)
ReplaceAll(str, pat, v, i) ==
  IF i > Len(str) THEN <<>>
  ELSE IF MatchAt(pat, str, i)
       THEN Expansion(v, 1, str, i, Len(pat)) \o ReplaceAll(str, pat, v, i + Len(pat))
       ELSE <<str[i]>> \o ReplaceAll(str, pat, v, i + 1)

\* the `for (key in data)` loop from the k-th property on: each key's
\* replacement works on the result of the keys before it
RECURSIVE ForIn(_, _, _)
ForIn(template, d, k) ==
  IF k > Len(d) THEN template
  ELSE ForIn(ReplaceAll(template, Pattern(d[k][1]), d[k][2], 1), d, k + 1)

\* Temper.html
html(template, d) == ForIn(template, d, 1)

\* the strings of at most n characters of the set chars
Strings(chars, n) == UNION {[1..m -> chars] : m \in 0..n}

\* the templates, keys and values the closure is tried with
SourceChars == {"{", "}", "a", "b"}
Sources == Strings(SourceChars, MaxSourceLen)
Keys == {<<"a">>, <<"b">>, <<".">>}
Values == {<<"x">>, <<"$", "'", "x">>, <<"$", "&">>, <<"{", "b", "}">>}
DataRecords ==
  {d \in UNION {[1..m -> Keys \X Values] : m \in 0..MaxKeys} :
     \A i, j \in 1..Len(d) : d[i][1] = d[j][1] => i = j}

\* compile(template, 'html') created the closure
InitHtml ==
  /\ installed = NoBindings
  /\ required = {"html"}
  /\ compiled = NoArtifacts
  /\ file = NoFiles
  /\ timers = [NoTimers EXCEPT !.require["html"] = EngineTTL]
  /\ live = TRUE
  /\ Constructed([given |-> TRUE, cache |-> TRUE], "development")
  /\ nextId = 2
  /\ ret = NoRet
  /\ loadable = {}
  /\ fs = [f \in Files |-> IF f \in LibPaths THEN "lib" ELSE "v1"]
  /\ envChanges = 0
  /\ source \in Sources
  /\ data = <<>>
  /\ rendered = NotRendered
  /\ evaluated = NotRendered
  /\ NoNaming

\* server(d): `return Temper.html(template, data || {});`.  The result
\* depends on the template and d alone, so one call per closure is looked at.
server(d) ==
  /\ rendered = NotRendered
  /\ data' = d
  /\ rendered' = html(source, d)
  /\ Event("server")
  /\ UNCHANGED <<installed, required, compiled, file, timers, live, cache, nextId,
                 loadable, fs, envChanges, source, evaluated, construction, naming>>

NextHtml == \E d \in DataRecords : server(d)

SpecHtml == InitHtml /\ [][NextHtml]_vars

----------------------------------------------------------------------------
(* The `client` of an html artifact: the text of a function whose body is  *)
(* the text of Temper.html followed by                                     *)
(* 'return html('+ JSON.stringify(template) +', data || {});'.             *)

\* the characters of str from position i on, as JSON.stringify writes them
\* inside the quotes: a quote and a backslash get a backslash in front
RECURSIVE Escape(_, _)
Escape(str, i) ==
  IF i > Len(str) THEN <<>>
  ELSE (IF str[i] \in {"\"", "\\"} THEN <<"\\", str[i]>> ELSE <<str[i]>>)
       \o Escape(str, i + 1)

\* variant of Stringify: the template is put between quotes as it is
StringifyRaw(str) == <<"\"">> \o str \o <<"\"">>

\* JSON.stringify(template)
Stringify(str) == <<"\"">> \o Escape(str, 1) \o <<"\"">>

\* the value of a string literal of the evaluated text, from position i of
\* the literal on: it ends at the first quote without a backslash in front,
\* and a backslash stands for the character that follows it
RECURSIVE Unescape(_, _)
Unescape(lit, i) ==
  IF i > Len(lit) \/ lit[i] = "\"" THEN <<>>
  ELSE IF lit[i] = "\\" /\ i < Len(lit)
       THEN <<lit[i + 1]>> \o Unescape(lit, i + 2)
       ELSE <<lit[i]>> \o Unescape(lit, i + 1)

\* the string the evaluated text passes to html
Parse(lit) == Unescape(lit, 2)

\* the evaluated client called with d
Evaluate(template, d) == html(Parse(Stringify(template)), d)

\* the templates and records the client is tried with
ClientChars == {"{", "a", "}", "\"", "\\"}
ClientSources == Strings(ClientChars, MaxSourceLen)
ClientRecords == {<<>>, << <<<<"a">>, <<"x">>>> >>, << <<<<"a">>, <<"\\", "\"">>>> >>}

InitClient ==
  /\ installed = NoBindings
  /\ required = {"html"}
  /\ compiled = NoArtifacts
  /\ file = NoFiles
  /\ timers = [NoTimers EXCEPT !.require["html"] = EngineTTL]
  /\ live = TRUE
  /\ Constructed([given |-> TRUE, cache |-> TRUE], "development")
  /\ nextId = 2
  /\ ret = NoRet
  /\ loadable = {}
  /\ fs = [f \in Files |-> IF f \in LibPaths THEN "lib" ELSE "v1"]
  /\ envChanges = 0
  /\ source \in ClientSources
  /\ data = <<>>
  /\ rendered = NotRendered
  /\ evaluated = NotRendered
  /\ NoNaming

\* (new Function('return '+ obj.client))()(data), with the record server
\* was called with
client ==
  /\ rendered # NotRendered
  /\ evaluated = NotRendered
  /\ evaluated' = Evaluate(source, data)
  /\ Event("client")
  /\ UNCHANGED <<installed, required, compiled, file, timers, live, cache, nextId,
                 loadable, fs, envChanges, source, data, rendered, construction,
                 naming>>

NextClient ==
  \/ \E d \in ClientRecords : server(d)
  \/ client

SpecClient == InitClient /\ [][NextClient]_vars

----------------------------------------------------------------------------
(* The constructor with every combination of the `cache` option and        *)
(* NODE_ENV, followed by fetch calls.                                      *)

InitNew ==
  /\ installed = NoBindings
  /\ required = {}
  /\ compiled = NoArtifacts
  /\ file = NoFiles
  /\ timers = NoTimers
  /\ live = TRUE
  /\ \E o \in ExplicitOptions \cup {NoOptions}, e \in Envs : Constructed(o, e)
  /\ nextId = 1
  /\ ret = NoRet
  /\ loadable = TimedEngines
  /\ fs = [f \in Files |-> IF f \in LibPaths THEN "lib" ELSE "v1"]
  /\ envChanges = 0
  /\ NoClosure
  /\ NoNaming

NextNew ==
  \/ \E f \in FetchPaths : fetch(f, Undefined)
  \/ \E e \in Engines : requireTimer(e)
  \/ \E f \in Files : readTimer(f)

SpecNew == InitNew /\ [][NextNew]_vars

----------------------------------------------------------------------------
(* Temper.prototype.normalizeName.  A path is the sequence of its          *)
(* characters, with '/' between directories.                                *)

Digits == {"0", "1", "2", "3", "4", "5", "6", "7", "8", "9"}
Letters ==
  {"a", "b", "c", "d", "e", "f", "g", "h", "i", "j", "k", "l", "m", "n", "o", "p",
   "q", "r", "s", "t", "u", "v", "w", "x", "y", "z",
   "A", "B", "C", "D", "E", "F", "G", "H", "I", "J", "K", "L", "M", "N", "O", "P",
   "Q", "R", "S", "T", "U", "V", "W", "X", "Y", "Z"}

\* the characters the class [\w$] accepts
WordOrDollar == Letters \cup Digits \cup {"_", "$"}

\* the positions of the character c in str
Positions(str, c) == {i \in 1..Len(str) : str[i] = c}

\* the largest element of a non-empty set of numbers
Last(S) == CHOOSE i \in S : \A j \in S : j <= i

\* the path without the slashes at its end
RECURSIVE Trimmed(_)
Trimmed(p) ==
  IF p # <<>> /\ p[Len(p)] = "/" THEN Trimmed(SubSeq(p, 1, Len(p) - 1)) ELSE p

\* the last portion of a path: path.basename(file)
Portion(p) ==
  LET q == Trimmed(p) IN
  IF Positions(q, "/") = {} THEN q
  ELSE SubSeq(q, Last(Positions(q, "/")) + 1, Len(q))

\* path.extname(file): from the last '.' of the last portion on; empty
\* without a '.', and when the last '.' is the portion's first character
\* or the portion is '..'
PathExtname(p) ==
  LET b == Portion(p) IN
  IF Positions(b, ".") = {} \/ Last(Positions(b, ".")) = 1 \/ b = <<".", ".">>
  THEN <<>>
  ELSE SubSeq(b, Last(Positions(b, ".")), Len(b))

\* path.basename(file, path.extname(file))
Basename(p) == SubSeq(Portion(p), 1, Len(Portion(p)) - Len(PathExtname(p)))

\* variant of DropLeadingDigits: one digit is removed
DropFirstDigit(str) ==
  IF str # <<>> /\ str[1] \in Digits THEN Tail(str) ELSE str

\* name.replace(/^[0-9]+/, '')
RECURSIVE DropLeadingDigits(_)
DropLeadingDigits(str) ==
  IF str # <<>> /\ str[1] \in Digits THEN DropLeadingDigits(Tail(str)) ELSE str

\* name.replace(/[^\w$]/g, '')
DropOthers(str) == SelectSeq(str, LAMBDA c : c \in WordOrDollar)

\* what Temper.prototype.normalizeName returns
Normalized(p) == DropOthers(DropLeadingDigits(Basename(p)))

\* the paths normalizeName is tried with
PathChars == {"/", ".", "1", "a", "-", "$"}
NamePaths == Strings(PathChars, MaxPathLen)

\* temper.normalizeName(p); it uses nothing of the instance, so one call is
\* looked at
normalizeName(p) ==
  /\ identifier = NotNamed
  /\ filename' = p
  /\ identifier' = Normalized(p)
  /\ Event("normalizeName")
  /\ UNCHANGED <<installed, required, compiled, file, timers, live, cache, nextId,
                 loadable, fs, envChanges, closure, construction, named>>

NextName == \E p \in NamePaths : normalizeName(p)

SpecName == InitTimed /\ [][NextName]_vars

----------------------------------------------------------------------------
(* The renaming of an anonymous client function.  The text of the function *)
(* is the sequence of its lexemes, the name is the sequence of characters  *)
(* normalizeName returned.                                                 *)

\* (new Function('data', body)).toString()
AnonymousText == <<"function anonymous", "(", "data", ")", "{", "body", "}">>

\* the string pattern occurs in str at position i
OccursAt(pat, str, i) ==
  /\ i + Len(pat) - 1 <= Len(str)
  /\ \A j \in 1..Len(pat) : pat[j] = str[i + j - 1]

\* str.replace(pat, v) with strings for pat and v: the first occurrence of
\* pat is replaced by the expansion of the replacement string v
ReplaceFirst(str, pat, v) ==
  IF \E i \in 1..Len(str) : OccursAt(pat, str, i)
  THEN LET i == CHOOSE i \in 1..Len(str) :
                  /\ OccursAt(pat, str, i)
                  /\ \A h \in 1..(i - 1) : ~OccursAt(pat, str, h)
       IN SubSeq(str, 1, i - 1) \o Expansion(v, 1, str, i, Len(pat))
          \o SubSeq(str, i + Len(pat), Len(str))
  ELSE str

\* `.toString().replace('function anonymous', 'function ' + name)`
Renamed(text, name) ==
  ReplaceFirst(text, <<"function anonymous">>, <<"function ">> \o name)

\* compile names the client after the name normalizeName returned
rename ==
  /\ identifier # NotNamed
  /\ named = NotNamed
  /\ named' = Renamed(AnonymousText, identifier)
  /\ Event("rename")
  /\ UNCHANGED <<installed, required, compiled, file, timers, live, cache, nextId,
                 loadable, fs, envChanges, closure, construction, filename, identifier>>

NextRename ==
  \/ \E p \in NamePaths : normalizeName(p)
  \/ rename

SpecRename == InitTimed /\ [][NextRename]_vars

----------------------------------------------------------------------------
(* Properties.  Every call and every event overwrites `ret`, so a step     *)
(* with ret'.op = "discover" is a discover call, and so on.                *)

\* the extension of the path the call that just returned was made with
RetExt == extname(ret.arg)

\* the candidates of `list` whose require succeeds in the current state
Loads(list) == SelectSeq(list, LAMBDA e : e \in required \/ CanLoad(e))

\* the names of a candidate list
Names(list) == {list[i] : i \in 1..Len(list)}

\* an instance as the constructor leaves it
Fresh == [installed |-> NoBindings, required |-> {}, compiled |-> NoArtifacts,
          file |-> NoFiles, timers |-> NoTimers, live |-> TRUE, nextId |-> nextId]

\* C1: once discover has returned an engine name for an extension, a later
\* discover call for a path with that extension returns the same name
\* (stated for the discover call that follows directly).
C1_DiscoverIsSticky ==
  [][(/\ ret.op = "discover" /\ ret.status = "ok"
      /\ ret'.op = "discover" /\ ret'.status = "ok"
      /\ extname(ret'.arg) = extname(ret.arg))
     => ret'.name = ret.name]_vars

\* C2: for an extension without a binding, discover returns the first
\* candidate in list order whose load succeeds, and the binding memoized in
\* `installed` for the extension is that same candidate.
C2_FirstLoadableIsBound ==
  [][(/\ ret'.op = "discover" /\ ret'.status = "ok"
      /\ ~HasBinding(Self, extname(ret'.arg)))
     => /\ Loads(supported(extname(ret'.arg))) # <<>>
        /\ ret'.name = Loads(supported(extname(ret'.arg)))[1]
        /\ installed'[extname(ret'.arg)] = ret'.name]_vars

\* C3: once an extension has a binding, no call (discover, fetch, compile,
\* require, read, destroy), no timer eviction and no change of the
\* environment changes it while the instance is live.
C3_BindingNeverChanges ==
  [][\A e \in Exts : (live /\ installed[e] # Undefined) => installed'[e] = installed[e]]_vars

\* a discover call returned the binding of .mustache although the bound engine
\* has been evicted and the higher-ranked hogan.js, installed after the
\* start (the one change of the environment), can be loaded
C3_Witness ==
  /\ ret.op = "discover" /\ ret.status = "ok" /\ RetExt = ".mustache"
  /\ ret.name = installed[".mustache"]
  /\ ret.name = "handlebars"
  /\ "handlebars" \notin required
  /\ "hogan.js" \in loadable /\ envChanges = 1 /\ fs[A] = "v1"

\* C4: with caching enabled a successful fetch(p) stores the artifact it
\* returns; a stored artifact is never replaced or evicted; and a fetch(p)
\* that finds one returns that very object without compiling, whatever
\* happened to the timers, the engines, the file cache or the file.
C4_FetchReturnsStored ==
  [][/\ (ret'.op = "fetch" /\ ret'.status = "ok" /\ cache)
           => compiled'[ret'.arg] = ret'.art
     /\ \A p \in Paths : (live /\ compiled[p] # NoArtifact) => compiled'[p] = compiled[p]
     /\ (ret'.op = "fetch" /\ compiled[ret'.arg] # NoArtifact)
           => /\ ret'.status = "ok"
              /\ ret'.art = compiled[ret'.arg]
              /\ nextId' = nextId]_vars

\* fetch returned the stored artifact after its file was evicted from the
\* file cache and changed on disk, and its engine was evicted
C4_Witness ==
  /\ ret.op = "fetch" /\ ret.status = "ok"
  /\ ret.art = compiled[ret.arg]
  /\ file[ret.arg] = Absent
  /\ fs[ret.arg] # ret.art.template
  /\ ret.art.engine \notin required

\* C5: after the first destroy() on a live instance no eviction timer is
\* pending and none of installed, required, compiled, file has an entry.
C5_DestroyDropsEverything ==
  [][(ret'.op = "destroy" /\ live)
     => /\ timers' = NoTimers
        /\ installed' = NoBindings
        /\ required' = {}
        /\ compiled' = NoArtifacts
        /\ file' = NoFiles]_vars

\* C6: destroy() returns true on the first call on a live instance and false
\* on every later call, which does not throw and changes nothing.
C6_DestroyFlag ==
  [][ret'.op = "destroy"
     => /\ ret'.status = "ok"
        /\ ret'.flag = live
        /\ ~live => UNCHANGED <<installed, required, compiled, file, timers, live>>]_vars

\* C7: a read, discover or fetch that follows destroy() ends as it would on
\* an instance whose caches are empty: it returns nothing that was cached
\* before the destroy, and fails only where the fresh instance fails.
C7_AfterDestroyAsEmpty ==
  [][ret.op = "destroy"
     => /\ ret'.op = "read"
           => /\ ret'.status = Read(Fresh, ret'.arg).status
              /\ ret'.content = Read(Fresh, ret'.arg).content
        /\ ret'.op = "discover"
           => /\ ret'.status = Discover(Fresh, ret'.arg).status
              /\ ret'.name = Discover(Fresh, ret'.arg).name
        /\ ret'.op = "fetch"
           => /\ ret'.status = Fetch(Fresh, ret'.arg, ret'.engine).status
              /\ ret'.art = Fetch(Fresh, ret'.arg, ret'.engine).art]_vars

\* C8: discover on a path whose extension has no candidate list and no
\* binding throws the unknown-extension error, whose message names the
\* extension, and leaves installed, required, file, compiled and the timers
\* as they were.
C8_UnknownExtension ==
  [][(/\ ret'.op = "discover"
      /\ supported(extname(ret'.arg)) = <<>>
      /\ ~HasBinding(Self, extname(ret'.arg)))
     => /\ ret'.status = "Unknown file extension"
        /\ extname(ret'.arg) \in ret'.mentions
        /\ UNCHANGED <<installed, required, file, compiled, timers>>]_vars

\* discover threw for .trololol on an instance that holds bindings, engines
\* and timers
C8_Witness ==
  /\ ret.op = "discover" /\ ret.status = "Unknown file extension"
  /\ RetExt = ".trololol"
  /\ installed[".mustache"] # Undefined
  /\ required # {}
  /\ timers # NoTimers

\* C9 as stated: when every candidate of an extension fails to load, the
\* error discover throws carries the extension and every attempted name.
C9_ErrorCarriesAllNames ==
  [][(/\ ret'.op = "discover"
      /\ ~HasBinding(Self, extname(ret'.arg))
      /\ supported(extname(ret'.arg)) # <<>>
      /\ Loads(supported(extname(ret'.arg))) = <<>>)
     => /\ ret'.status = "No compatible template engine installed"
        /\ extname(ret'.arg) \in ret'.mentions
        /\ Names(supported(extname(ret'.arg))) \subseteq ret'.mentions]_vars

\* C9 as amended: when every candidate of an extension fails to load, the
\* error discover throws names the first candidate of the list and nothing
\* else: neither the extension nor the other candidates.
C9_ErrorNamesFirstCandidate ==
  [][(/\ ret'.op = "discover"
      /\ ~HasBinding(Self, extname(ret'.arg))
      /\ supported(extname(ret'.arg)) # <<>>
      /\ Loads(supported(extname(ret'.arg))) = <<>>)
     => /\ ret'.status = "No compatible template engine installed"
        /\ ret'.mentions = {supported(extname(ret'.arg))[1]}]_vars

\* discover threw for .mustache after a module that is no candidate was loaded
C9_Witness ==
  /\ ret.op = "discover"
  /\ ret.status = "No compatible template engine installed"
  /\ RetExt = ".mustache"
  /\ ret.mentions = {"hogan.js"}
  /\ loadable = {}
  /\ "html" \in required

\* C10: a failed load is not cached.  A require that fails throws the
\* module-isn't-installed error naming the module and leaves required,
\* installed and the timers as they were; a discover that fails leaves the
\* extension without a binding; and whether a require of an engine that
\* is not cached, or a discover for an extension that is not bound, succeeds
\* depends only on what can be loaded at the time of the call.
C10_FailedLoadIsNotCached ==
  [][/\ (ret'.op = "require" /\ ret'.status # "ok")
           => /\ ret'.status = "module isn't installed"
              /\ ret'.engine \in ret'.mentions
              /\ UNCHANGED <<required, installed, timers>>
     /\ (ret'.op = "discover" /\ ret'.status # "ok")
           => /\ installed'[extname(ret'.arg)] = Undefined
              /\ UNCHANGED <<required, installed, timers>>
     /\ (ret'.op = "require" /\ ret'.engine \notin required)
           => (ret'.status = "ok" <=> CanLoad(ret'.engine))
     /\ (/\ ret'.op = "discover"
         /\ ~HasBinding(Self, extname(ret'.arg))
         /\ supported(extname(ret'.arg)) # <<>>)
           => (ret'.status = "ok" <=> Loads(supported(extname(ret'.arg))) # <<>>)]_vars

\* a require failed on an instance that holds a binding, engines and timers
C10_Witness ==
  /\ ret.op = "require" /\ ret.status = "module isn't installed"
  /\ ret.engine = "hogan.js"
  /\ installed[".mustache"] = "handlebars"
  /\ required = {"handlebars", "html"}

\* C11: require of a name that is a key of `required` returns the cached
\* entry without asking node's require(): it succeeds also when the module
\* can no longer be loaded, and changes nothing.  This includes 'html',
\* whose entry is null; and a require of 'html' succeeds whatever modules
\* are installed, cached or not.
C11_CachedRequire ==
  [][/\ (ret'.op = "require" /\ ret'.engine \in required)
           => /\ ret'.status = "ok"
              /\ ret'.name = ret'.engine
              /\ UNCHANGED <<required, installed, timers>>
     /\ (ret'.op = "require" /\ ret'.engine = "html")
           => /\ ret'.status = "ok"
              /\ ret'.name = "html"
              /\ "html" \in required']_vars

\* require returned the cached hogan.js after the module was uninstalled,
\* on an instance that also caches the null entry of 'html'
C11_Witness ==
  /\ ret.op = "require" /\ ret.status = "ok" /\ ret.engine = "hogan.js"
  /\ "hogan.js" \notin loadable
  /\ "html" \in required

\* the calls of the instance
Calls == {"require", "read", "discover", "compile", "fetch", "destroy"}

\* C12: an engine is a key of `required` exactly while its eviction is
\* pending; the eviction is scheduled 5 minutes ahead when the engine is
\* loaded; no call (require, discover, compile, fetch, read) that finds the
\* engine cached changes the time that remains; each minute takes one
\* minute off it and the engine leaves `required` only when none remains,
\* by its timer's callback; and a require that does not find the engine
\* loads it again, if it can be loaded, and schedules a new eviction 5
\* minutes ahead.
C12_EngineTTL ==
  [][\A e \in Engines :
       /\ (e \in required) <=> (timers.require[e] # NoTimer)
       /\ (e \notin required /\ e \in required')
            => /\ ret'.op \in Calls
               /\ timers'.require[e] = EngineTTL
       /\ (e \in required /\ ret'.op \in Calls)
            => /\ e \in required'
               /\ timers'.require[e] = timers.require[e]
       /\ (e \in required /\ ret'.op = "tick")
            => /\ timers.require[e] > 0
               /\ e \in required'
               /\ timers'.require[e] = timers.require[e] - 1
       /\ (e \in required /\ e \notin required')
            => /\ ret'.op = "cleanup"
               /\ timers.require[e] = 0
       /\ (ret'.op = "require" /\ ret'.engine = e /\ e \notin required)
            => /\ ret'.status = "ok" <=> CanLoad(e)
               /\ ret'.status = "ok"
                    => (e \in required' /\ timers'.require[e] = EngineTTL)]_vars

\* a require loaded hogan.js anew: the engine compiled the stored artifact
\* earlier, the support file that compile read has been evicted since, and
\* the engine's eviction is again 5 minutes ahead
C12_Witness ==
  /\ ret.op = "require" /\ ret.status = "ok" /\ ret.engine = "hogan.js"
  /\ timers.require["hogan.js"] = EngineTTL
  /\ compiled[A].engine = "hogan.js"
  /\ nextId = 2
  /\ file[HoganLib] = Absent /\ timers.read[HoganLib] = NoTimer

\* C13: a path is a key of `file` exactly while its eviction is pending; a
\* read that finds the path cached returns the cached content, whatever the
\* file holds by now, and changes neither the cache nor the timers; the
\* eviction is scheduled 1 minute ahead by the read that populates the
\* entry, the minute takes the entry out by its timer's callback, and the
\* next read returns what the file holds then and schedules anew.
C13_FileTTL ==
  [][/\ \A f \in Files :
          /\ (file[f] # Absent) <=> (timers.read[f] # NoTimer)
          /\ (file[f] = Absent /\ file'[f] # Absent)
               => /\ ret'.op \in Calls
                  /\ file'[f] = fs[f]
                  /\ timers'.read[f] = FileTTL
          /\ (file[f] # Absent /\ ret'.op \in Calls)
               => /\ file'[f] = file[f]
                  /\ timers'.read[f] = timers.read[f]
          /\ (file[f] # Absent /\ ret'.op = "tick")
               => /\ timers.read[f] > 0
                  /\ file'[f] = file[f]
                  /\ timers'.read[f] = timers.read[f] - 1
          /\ (file[f] # Absent /\ file'[f] # file[f])
               => /\ ret'.op = "cleanup"
                  /\ file'[f] = Absent
                  /\ timers.read[f] = 0
     /\ (ret'.op = "read" /\ file[ret'.arg] # Absent)
          => /\ ret'.status = "ok"
             /\ ret'.content = file[ret'.arg]
             /\ UNCHANGED <<file, timers>>
     /\ (ret'.op = "read" /\ file[ret'.arg] = Absent /\ fs[ret'.arg] # Missing)
          => /\ ret'.status = "ok"
             /\ ret'.content = fs[ret'.arg]
             /\ file'[ret'.arg] = fs[ret'.arg]
             /\ timers'.read[ret'.arg] = FileTTL]_vars

\* a read returned the cached content of a file that was rewritten since,
\* at the end of the entry's minute
C13_Witness ==
  /\ ret.op = "read" /\ ret.status = "ok"
  /\ ret.content = file[ret.arg]
  /\ fs[ret.arg] \notin {ret.content, Missing}
  /\ timers.read[ret.arg] = 0

\* C14 as stated: a read fails whenever the file cannot be read at the time
\* of the call, and the content a read returns is the content the file holds
\* at the time of the call.
C14_NeverStale ==
  [][ret'.op = "read"
     => /\ fs[ret'.arg] = Missing => ret'.status # "ok"
        /\ ret'.status = "ok" => ret'.content = fs[ret'.arg]]_vars

\* C14 as amended: a read of a path that is not cached fails exactly when the
\* file cannot be read at the time of the call and otherwise returns the
\* content the file holds then; a read of a cached path never fails and
\* returns the cached content, which is the content the file held when the
\* entry was created, whatever happened to the file since.
C14_ReadThroughCache ==
  [][/\ (ret'.op = "read" /\ file[ret'.arg] = Absent)
          => /\ ret'.status # "ok" <=> fs[ret'.arg] = Missing
             /\ ret'.status = "ok" => ret'.content = fs[ret'.arg]
     /\ (ret'.op = "read" /\ file[ret'.arg] # Absent)
          => /\ ret'.status = "ok"
             /\ ret'.content = file[ret'.arg]
     /\ \A f \in Files :
          (file[f] = Absent /\ file'[f] # Absent) => file'[f] = fs[f]]_vars

\* a read returned the cached content of a file that has been removed
C14_Witness ==
  /\ ret.op = "read" /\ ret.status = "ok"
  /\ ret.content = file[ret.arg]
  /\ fs[ret.arg] = Missing

\* C15: a read that fails leaves `file` and the timers as they were, with no
\* entry and no pending eviction for the path; and whether a read of a path
\* that is not cached succeeds depends only on the file at the time of the
\* call, so a read after a failed one goes to the file system again.
C15_FailedReadIsNotCached ==
  [][/\ (ret'.op = "read" /\ ret'.status # "ok")
          => /\ UNCHANGED <<file, timers, installed, required, compiled>>
             /\ file'[ret'.arg] = Absent
             /\ timers'.read[ret'.arg] = NoTimer
     /\ (ret'.op = "read" /\ file[ret'.arg] = Absent)
          => (ret'.status = "ok" <=> fs[ret'.arg] # Missing)]_vars

\* a read failed for a template that was read and compiled earlier, and
\* whose file was removed after its cache entry was evicted
C15_Witness ==
  /\ ret.op = "read" /\ ret.status = "ENOENT"
  /\ fs[ret.arg] = Missing
  /\ compiled[ret.arg] # NoArtifact
  /\ file[ret.arg] = Absent /\ timers.read[ret.arg] = NoTimer

C17_OverrideWins ==
  [][(ret'.op = "fetch" /\ ret'.engine # Undefined)
     => /\ ret'.status = "ok" => ret'.art.engine = ret'.engine
        /\ installed' = installed]_vars

\* C17 as amended: a fetch that names an engine, for a path without a stored
\* artifact, does not discover: it leaves `installed` as it was, fails only
\* where the read of the file or the load of the named engine fails, also
\* for a path whose extension has no candidate list, and the artifact it
\* returns has the named engine and is compiled from the file's content.
C17_OverrideOnMiss ==
  [][(/\ ret'.op = "fetch" /\ ret'.engine # Undefined
      /\ compiled[ret'.arg] = NoArtifact)
     => /\ installed' = installed
        /\ ret'.status \in {"ok", "ENOENT", "module isn't installed"}
        /\ ret'.status = "ok"
             => /\ ret'.art.engine = ret'.engine
                /\ ret'.art.id = nextId
                /\ ret'.art.template = file'[ret'.arg]]_vars

\* a fetch of the .trololol template with hogan.js returned a hogan.js
\* artifact on an instance without any binding
C17_Witness ==
  /\ ret.op = "fetch" /\ ret.status = "ok"
  /\ ret.arg = T /\ ret.engine = "hogan.js"
  /\ ret.art.engine = "hogan.js"
  /\ installed = NoBindings

\* C18: the object compile returns has the fields library, client, server,
\* engine and hash; engine is the name compile was called with; library is
\* the content of the engine's support file, or empty without one; and
\* hash.library, hash.client and hash.server are the digests of library,
\* client and server.
C18_ArtifactFields ==
  [][(ret'.op = "compile" /\ ret'.status = "ok")
     => /\ {"library", "client", "server", "engine", "hash"} \subseteq DOMAIN ret'.art
        /\ DOMAIN ret'.art.hash = {"library", "client", "server"}
        /\ ret'.art.engine = ret'.engine
        /\ ret'.art.library =
             (IF LibraryPath(ret'.engine) = <<>> THEN ""
              ELSE file'[LibraryPath(ret'.engine)])
        /\ ret'.art.hash.library = hash(ret'.art.library)
        /\ ret'.art.hash.client = hash(ret'.art.client)
        /\ ret'.art.hash.server = hash(toString(ret'.art.server))]_vars

\* compile returned a handlebars artifact that carries the runtime library
C18_Witness ==
  /\ ret.op = "compile" /\ ret.status = "ok"
  /\ ret.engine = "handlebars"
  /\ ret.art.library = "lib"
  /\ ret.art.hash.client # ret.art.hash.server

\* the key literally: '{', the characters of the key, '}'
Placeholder(key) == <<"{">> \o key \o <<"}">>

\* the properties of d whose placeholder stands at position i of str
KeysAt(str, d, i) ==
  {k \in 1..Len(d) :
     /\ i + Len(Placeholder(d[k][1])) - 1 <= Len(str)
     /\ SubSeq(str, i, i + Len(Placeholder(d[k][1])) - 1) = Placeholder(d[k][1])}

\* str from position i on, with every placeholder of a key of d replaced by
\* the key's value as it is, and everything else as it is
RECURSIVE Substitute(_, _, _)
Substitute(str, d, i) ==
  IF i > Len(str) THEN <<>>
  ELSE IF KeysAt(str, d, i) # {}
       THEN LET k == CHOOSE k \in KeysAt(str, d, i) : TRUE IN
            d[k][2] \o Substitute(str, d, i + Len(Placeholder(d[k][1])))
       ELSE <<str[i]>> \o Substitute(str, d, i + 1)

\* the characters of a string
Chars(str) == {str[i] : i \in 1..Len(str)}

\* C19: server(d) returns the source with every literal occurrence of
\* '{k}', for every key k of d, replaced by d[k], and with placeholders of
\* other names and all other text as they are; keys are matched literally.
C19_LiteralSubstitution ==
  rendered # NotRendered => rendered = Substitute(source, data, 1)

\* C20: each value is inserted verbatim, also a value that contains the
\* characters of a replacement pattern such as $' : for keys without
\* pattern characters and values without braces, server(d) returns the
\* source with the values in the place of the placeholders.
C20_ValuesVerbatim ==
  (/\ rendered # NotRendered
   /\ \A k \in 1..Len(data) :
        /\ "." \notin Chars(data[k][1])
        /\ Chars(data[k][2]) \cap {"{", "}"} = {})
  => rendered = Substitute(source, data, 1)

\* C21: for the html engine the evaluated client, called with a data
\* record, returns the string server returns for that record, for every
\* template and every record, the empty one included; and the engine has
\* no library.
C21_ClientEqualsServer ==
  /\ LibraryPath("html") = <<>>
  /\ evaluated # NotRendered => evaluated = rendered

\* client and server returned the same string for a template with a
\* placeholder and a backslash, with the placeholder replaced by a value
\* with a backslash and a quote
C21_Witness ==
  /\ evaluated # NotRendered
  /\ evaluated = rendered
  /\ "\\" \in Chars(source)
  /\ "\"" \in Chars(rendered) \ Chars(source)
  /\ data # <<>>
  /\ rendered # source

\* the number of digits str starts with
RECURSIVE LeadingDigits(_)
LeadingDigits(str) ==
  IF str = <<>> \/ str[1] \notin Digits THEN 0 ELSE 1 + LeadingDigits(Tail(str))

\* C22: normalizeName returns the base name of the path without its
\* extension, without the digits it starts with, and of what is left the
\* letters, digits, underscores and dollar signs in their order; when
\* nothing is left it returns the empty string.
C22_NormalizedName ==
  identifier # NotNamed
  => LET stem == Basename(filename)
         rest == SubSeq(stem, LeadingDigits(stem) + 1, Len(stem))
         kept == {i \in 1..Len(rest) : rest[i] \in WordOrDollar}
     IN /\ Len(identifier) = Cardinality(kept)
        /\ \A n \in 1..Len(identifier) :
             \E i \in kept :
               /\ Cardinality({j \in kept : j <= i}) = n
               /\ identifier[n] = rest[i]
        /\ kept = {} => identifier = <<>>

\* normalizeName returned the empty string for a path whose base name is a
\* digit and a dash, followed by an extension
C22_Witness ==
  /\ identifier = <<>>
  /\ Basename(filename) = <<"1", "-">>
  /\ PathExtname(filename) # <<>>

\* C23: what normalizeName returns never begins with a digit.
C23_NoLeadingDigit ==
  identifier \notin {NotNamed, <<>>} => identifier[1] \notin Digits

C25_CachedInProduction ==
  ~options.given
  => /\ cache <=> env = "production"
     /\ (ret.op = "fetch" /\ ret.status = "ok")
          => (compiled[ret.arg] # NoArtifact <=> env = "production")

\* C26: compile leaves `compiled` and `installed` as they are, and a compile
\* call that returns makes a new object from its arguments, different from
\* every stored artifact and from the object of the call before, whatever
\* this.cache is.
C26_CompileIsStateless ==
  [][ret'.op = "compile"
     => /\ UNCHANGED <<compiled, installed>>
        /\ ret'.status = "ok"
           => /\ ret'.art.template \in CompileTemplates
              /\ ret'.art = Artifact(nextId, ret'.engine, ret'.art.template,
                                     IF LibraryPath(ret'.engine) = <<>> THEN ""
                                     ELSE file'[LibraryPath(ret'.engine)])
              /\ nextId' = nextId + 1
              /\ \A f \in Paths : compiled[f] # ret'.art
              /\ ret.art # ret'.art]_vars

\* with this.cache set, compile returned a new object for the template and
\* the engine of an artifact that is stored
C26_Witness ==
  /\ ret.op = "compile" /\ ret.status = "ok" /\ cache
  /\ \E f \in Paths :
       /\ compiled[f] # NoArtifact
       /\ compiled[f].id # ret.art.id
       /\ compiled[f] = [ret.art EXCEPT !.id = compiled[f].id]

\* C27: a discover call that selects a candidate loads no candidate ranked
\* after it: such a candidate is in `required`, or has a pending timer,
\* after the call only if it was or had one before.
C27_NoLowerRankedLoad ==
  [][(ret'.op = "discover" /\ ret'.status = "ok")
     => LET list == supported(extname(ret'.arg)) IN
        \A i, j \in 1..Len(list) :
          (list[i] = ret'.name /\ i < j)
          => /\ list[j] \in required' => list[j] \in required
             /\ timers'.require[list[j]] # NoTimer
                  => timers.require[list[j]] # NoTimer]_vars

\* C28: a fetch that throws for an unknown extension or for want of an
\* installed engine has read no file: `file` and the timers are unchanged.
C28_ResolveBeforeRead ==
  [][(/\ ret'.op = "fetch"
      /\ ret'.status \in {"Unknown file extension",
                          "No compatible template engine installed"})
     => UNCHANGED <<file, timers>>]_vars

\* C29: a fetch made while this.cache is false compiles and returns a new
\* object, never an entry of `compiled`.
C29_NoCacheNoHit ==
  [][(ret'.op = "fetch" /\ ret'.status = "ok" /\ ~cache)
     => /\ ret'.art.id = nextId
        /\ nextId' = nextId + 1
        /\ \A f \in Paths : compiled[f] # ret'.art]_vars

\* C30: a timer that fires removes one engine from `required`, or one path
\* from `file`, together with its own timer, and nothing else: `installed`,
\* `compiled`, the other entries and the other timers are unchanged.
C30_EvictsOneEntry ==
  [][ret'.op = "cleanup"
     => /\ UNCHANGED <<installed, compiled, live, nextId>>
        /\ \/ \E e \in required :
                /\ timers.require[e] # NoTimer
                /\ required' = required \ {e}
                /\ timers' = [timers EXCEPT !.require[e] = NoTimer]
                /\ file' = file
           \/ \E f \in Files :
                /\ file[f] # Absent /\ timers.read[f] # NoTimer
                /\ file' = [file EXCEPT ![f] = Absent]
                /\ timers' = [timers EXCEPT !.read[f] = NoTimer]
                /\ required' = required]_vars

\* the template's file was evicted while its artifact is stored, its
\* extension is bound, and the engine and its support file are still cached
\* with their timers pending
C30_Witness ==
  /\ ret.op = "cleanup"
  /\ file[A] = Absent /\ timers.read[A] = NoTimer
  /\ compiled[A] # NoArtifact
  /\ installed[".mustache"] # Undefined
  /\ compiled[A].engine = "hogan.js"
  /\ "hogan.js" \in required /\ timers.require["hogan.js"] # NoTimer
  /\ file[HoganLib] # Absent /\ timers.read[HoganLib] # NoTimer

\* C31: on a live instance an engine is in `required` exactly when its timer
\* 'require-<engine>' is pending, and a path is in `file` exactly when its
\* timer 'read-<path>' is pending (a timer name holds one timer at most).
C31_EntryIffTimer ==
  live => /\ \A e \in Engines : e \in required <=> timers.require[e] # NoTimer
          /\ \A f \in Files : file[f] # Absent <=> timers.read[f] # NoTimer

\* the engine bound by discover's own write to `required` was evicted with
\* its timer, while the engine discover returned and the template's file
\* are cached with their timers pending
C31_Witness ==
  /\ ret.op = "cleanup" /\ live
  /\ installed[".mustache"] = "handlebars"
  /\ "handlebars" \notin required /\ timers.require["handlebars"] = NoTimer
  /\ "hogan.js" \in required /\ timers.require["hogan.js"] # NoTimer
  /\ file[A] # Absent /\ timers.read[A] # NoTimer

\* every module that is cached can still be loaded
Available == \A e \in required : CanLoad(e)

\* the instance with every timer fired
Evicted(s) == [s EXCEPT !.required = {}, !.file = NoFiles, !.timers = NoTimers]

\* C32: while the cached modules can still be loaded (the files do not
\* change), a discover or fetch call ends as it would with every cached
\* engine and file evicted: the same outcome, the same engine name, and an
\* artifact with the same engine, client, library and hashes.
C32_EvictionIsInvisible ==
  [][(Available /\ ret'.op \in {"discover", "fetch"})
     => LET r == IF ret'.op = "discover" THEN Discover(Evicted(Self), ret'.arg)
                 ELSE Fetch(Evicted(Self), ret'.arg, ret'.engine)
        IN /\ ret'.status = r.status
           /\ ret'.mentions = r.mentions
           /\ ret'.name = r.name
           /\ ret'.art.engine = r.art.engine
           /\ ret'.art.client = r.art.client
           /\ ret'.art.library = r.art.library
           /\ ret'.art.hash = r.art.hash
           /\ installed' = r.s.installed]_vars

\* a second fetch succeeded with the bound engine after the engine of the
\* first fetch and its support file were evicted
C32_Witness ==
  /\ ret.op = "fetch" /\ ret.status = "ok" /\ ret.art.id = 2
  /\ ret.art.engine = "handlebars"
  /\ "hogan.js" \in loadable /\ "hogan.js" \notin required
  /\ file[HoganLib] = Absent
  /\ file[ret.arg] = ret.art.template

C34_KeyedByPath ==
  [][(ret'.op = "fetch" /\ ret'.engine # Undefined /\ compiled[ret'.arg] # NoArtifact)
     => /\ ret'.status = "ok"
        /\ ret'.art = compiled[ret'.arg]
        /\ UNCHANGED <<installed, required, compiled, file, timers, nextId>>]_vars

\* fetch was asked for handlebars and returned the stored hogan.js artifact
C34_Witness ==
  /\ ret.op = "fetch" /\ ret.status = "ok"
  /\ ret.engine = "handlebars"
  /\ ret.art.engine = "hogan.js"
  /\ ret.art = compiled[ret.arg]

\* the candidates of every list of the `supported` table
Candidates == UNION {Names(supported(e)) : e \in Exts}

\* C33: every candidate of the `supported` table has a case in compile: a
\* compile call with the name the discover call before it returned ends with
\* an artifact that has a client and a server.
C33_CandidatesCompile ==
  [][(/\ ret.op = "discover" /\ ret.status = "ok"
      /\ ret'.op = "compile" /\ ret'.engine = ret.name)
     => /\ ret.name \in Candidates
        /\ ret'.status = "ok"
        /\ ret'.art.client = Client(ret'.engine, ret'.art.template)
        /\ ret'.art.server = Server(ret'.engine, ret'.art.template)]_vars

\* C37: of two 'html' artifacts compiled one after the other, hash.server
\* is the same whatever the templates are, and hash.client is the same only
\* if the templates are.
C37_ServerHashIsConstant ==
  [][(/\ ret.op = "compile" /\ ret.status = "ok" /\ ret.engine = "html"
      /\ ret'.op = "compile" /\ ret'.status = "ok" /\ ret'.engine = "html")
     => /\ ret'.art.hash.server = ret.art.hash.server
        /\ ret'.art.hash.client = ret.art.hash.client
             <=> ret'.art.template = ret.art.template
        /\ ret'.art.hash.library = ret.art.hash.library]_vars

\* the second 'html' artifact, of another template than the first, with
\* the server hash every 'html' artifact has
C37_Witness ==
  /\ ret.op = "compile" /\ ret.status = "ok" /\ ret.engine = "html"
  /\ ret.art.id = 2 /\ ret.art.template = "v2"
  /\ ret.art.server = Server("html", "v2")
  /\ ret.art.hash.server = hash(toString(Server("html", "v1")))
  /\ ret.art.hash.client # hash(Client("html", "v1"))

C36_RenamedExactly ==
  named # NotNamed
  => named = <<"function ">> \o identifier \o Tail(AnonymousText)

====
